---- MODULE Spec2Model ----
(***************************************************************************)
(* Per-request bootstrap / teardown of the Service Weaver request handlers *)
(* (statusRequestHandler.DoOperation, mediaRequestHandler.DoOperation and  *)
(* the older mediaRequestHandler.Create) and the binary codec of           *)
(* apimodel.AttachmentRequest.                                             *)
(***************************************************************************)
EXTENDS Integers, Sequences, FiniteSets, TLC

(***************************************************************************)
(* Bounds.                                                                 *)
(***************************************************************************)
\* number of handler invocations that may run concurrently
NumInvocations == 2
\* number of distinct values typeutils.RandStringRunes(5) can return
NumTokens == 2

Invocations == 1..NumInvocations
Tokens == 1..NumTokens

(***************************************************************************)
(* Program constants.                                                      *)
(***************************************************************************)
CREATE_MEDIA == 0
UPDATE_MEDIA == 1
GET_MEDIA == 2
\* a MediaRequestOperation value outside the three declared ones
OtherOp == GET_MEDIA + 1
\* the op slot of a handler that takes no operation code
NoOp == 0 - 1

HandlerKinds == {"create", "media", "status"}

VARIABLES
    pc,       \* per invocation: position in the handler body
    call,     \* per invocation: [kind, op] the entry point and its op argument
    state,    \* per invocation: the handler's local `var state state.State`
    defers,   \* per invocation: stack of deferred calls, in registration order
    trace,    \* per invocation: the calls made so far, each with its outcome
    ret,      \* per invocation: what the entry point returned (value, error)
    requestHandler, \* the package-level `var requestHandler` of the media API module
    req,      \* codec: the AttachmentRequest given to MarshalBinary
    wire,     \* codec: the buffer on its way to UnmarshalBinary
    cut,      \* codec: number of bytes the buffer lost at its end on the way
    recv,     \* codec: the receiver of UnmarshalBinary
    out,      \* codec: how UnmarshalBinary ended: none | ok | err | panic
    cpc,      \* codec: start | encoded | forged | decoded | forged-decoded
    dump,     \* header dump given to stringToHeader
    parsed,   \* the textproto.MIMEHeader stringToHeader returned
    hpc,      \* start | parsed
    lanes,    \* dispatcher: per lane, the items queued and not yet processed
    enqueued, \* dispatcher: per lane, every item enqueued so far, in order
    processed, \* dispatcher: per lane, the items processed so far, [item, ok], in order
    occupancy, \* cache: number of entries held
    swept,    \* cache: the last Sweep call, [done, before, threshold]
    lang,     \* Language given to Language.MarshalBinary
    langWire, \* the bytes Language.MarshalBinary returned
    langRecv, \* the receiver of Language.UnmarshalBinary
    langOut,  \* how Language.UnmarshalBinary ended: none | ok | err
    lpc,      \* start | encoded | decoded
    form,     \* the AttachmentRequest given to validateCreateMedia
    limits,   \* the configured size and description limits
    verdict   \* what validateCreateMedia returned: none | nil | an error

handlerVars == <<pc, call, state, defers, trace, ret, requestHandler>>
codecVars == <<req, wire, cut, recv, out, cpc>>
headerVars == <<dump, parsed, hpc>>
laneVars == <<lanes, enqueued, processed>>
cacheVars == <<occupancy, swept>>
langVars == <<lang, langWire, langRecv, langOut, lpc>>
formVars == <<form, limits, verdict>>
extraVars == <<laneVars, cacheVars, langVars, formVars>>
vars == <<pc, call, state, defers, trace, ret, requestHandler,
          req, wire, cut, recv, out, cpc, dump, parsed, hpc,
          lanes, enqueued, processed, occupancy, swept,
          lang, langWire, langRecv, langOut, lpc, form, limits, verdict>>

\* the two lanes of the dispatcher
Lanes == {"client", "fedi"}

\* the dispatcher with nothing enqueued
InitLanesIdle ==
    /\ lanes = [l \in Lanes |-> <<>>]
    /\ enqueued = [l \in Lanes |-> <<>>]
    /\ processed = [l \in Lanes |-> <<>>]

\* no Sweep call made yet
NoSweep == [done |-> FALSE, before |-> 0, threshold |-> 0]

\* the cache empty and never swept
InitCacheIdle ==
    /\ occupancy = 0
    /\ swept = NoSweep

\* the zero value of Language: the zero language.Tag prints as "und"
ZeroLanguage == [Tag |-> <<117, 110, 100>>, TagStr |-> <<>>, DisplayStr |-> <<>>]

\* the Language codec at rest
InitLangIdle ==
    /\ lang = ZeroLanguage
    /\ langWire = <<>>
    /\ langRecv = ZeroLanguage
    /\ langOut = "none"
    /\ lpc = "start"

\* a form without a file, and limits of zero
NoForm == [File |-> [nil |-> TRUE, Size |-> 0], Description |-> <<>>]
NoLimits == [maxVideoSize |-> 0, maxImageSize |-> 0,
             minDescriptionChars |-> 0, maxDescriptionChars |-> 0]

\* validateCreateMedia not called
InitFormIdle ==
    /\ form = NoForm
    /\ limits = NoLimits
    /\ verdict = "none"

InitExtraIdle ==
    /\ InitLanesIdle
    /\ InitCacheIdle
    /\ InitLangIdle
    /\ InitFormIdle

\* ids of the recurring tasks: the handlers' own, and one a caller registers
TaskIds == {"@cachesweep", "@other"}

\* the zero value of state.State, as far as the handlers touch it
ZeroState ==
    [Caches    |-> "zero",      \* zero | started | stopped
     DB        |-> "nil",       \* nil | open | closed
     Storage   |-> "nil",       \* nil | open
     lock      |-> <<>>,        \* name of the lock file handed to AutoConfig
     Workers   |-> "zero",      \* zero | started | stopped
     Scheduler |-> {},          \* ids of the recurring tasks registered
     fns       |-> FALSE,       \* the four Workers.Enqueue*/Process* fields set
     running   |-> [id \in TaskIds |-> 0], \* callbacks in flight, per task id
     lateFire  |-> FALSE,       \* a task fired after Workers.Stop
     lateSweep |-> FALSE,       \* Caches.Sweep was called after Caches.Stop
     CachesStops  |-> 0,        \* number of calls of Caches.Stop
     WorkersStops |-> 0]        \* number of calls of Workers.Stop

\* the arguments of a call: entry point, op code, the component the call is
\* made on (0: nil) and the state of the caller's context
NoCall == [kind |-> "none", op |-> NoOp, handler |-> 0, ctx |-> "live"]

NoRet == [val |-> "none", err |-> "none"]

InitHandlers ==
    /\ pc = [i \in Invocations |-> "idle"]
    /\ call = [i \in Invocations |-> NoCall]
    /\ state = [i \in Invocations |-> ZeroState]
    /\ defers = [i \in Invocations |-> <<>>]
    /\ trace = [i \in Invocations |-> <<>>]
    /\ ret = [i \in Invocations |-> NoRet]
    /\ requestHandler = 0

Ev(name, ok) == [name |-> name, ok |-> ok]

\* Return with the deferred calls dropped on an error return (cleanup placed
\* at the end of the success path instead of in defer statements)
ReturnSkippingDeferred(i, v, e) ==
    /\ ret' = [ret EXCEPT ![i] = [val |-> v, err |-> e]]
    /\ pc' = [pc EXCEPT ![i] = "deferred"]
    /\ defers' = [defers EXCEPT ![i] = IF e = "nil" THEN @ ELSE <<>>]

\* a `return v, e` statement: the result is fixed, then the deferred calls run
Return(i, v, e) ==
    /\ ret' = [ret EXCEPT ![i] = [val |-> v, err |-> e]]
    /\ pc' = [pc EXCEPT ![i] = "deferred"]
    /\ defers' = defers

\* MediaCreatePOSTHandler up to the call of the handler: weaver.Run(ctx, serve)
\* makes serve store the component in the package variable; when Run fails
\* the error is printed and the variable keeps what it held
MediaCreatePOSTHandler(i) ==
    /\ pc[i] = "idle"
    /\ \E ok \in BOOLEAN : requestHandler' = IF ok THEN i ELSE requestHandler
    /\ pc' = [pc EXCEPT ![i] = "post"]
    /\ UNCHANGED <<call, state, defers, trace, ret>>
    /\ UNCHANGED <<codecVars, headerVars, extraVars>>

\* an entry point is called: the two DoOperation handlers on the caller's own
\* component reference, Create on whatever requestHandler holds at that moment
\* (a call on a nil interface panics)
Call(i) ==
    /\ \/ /\ pc[i] = "idle"
          /\ \E k \in HandlerKinds \ {"create"} :
               \E o \in (IF k = "media" THEN {CREATE_MEDIA, UPDATE_MEDIA, GET_MEDIA, OtherOp}
                         ELSE {NoOp}) :
                  call' = [call EXCEPT ![i] = [kind |-> k, op |-> o, handler |-> i, ctx |-> @.ctx]]
          /\ pc' = [pc EXCEPT ![i] = "caches"]
       \/ /\ pc[i] = "post"
          /\ requestHandler # 0
          /\ call' = [call EXCEPT ![i] = [kind |-> "create", op |-> NoOp,
                                          handler |-> requestHandler, ctx |-> @.ctx]]
          /\ pc' = [pc EXCEPT ![i] = "caches"]
       \/ /\ pc[i] = "post"
          /\ requestHandler = 0
          /\ pc' = [pc EXCEPT ![i] = "panicked"]
          /\ UNCHANGED call
    /\ UNCHANGED <<state, defers, trace, ret>>
    /\ UNCHANGED <<requestHandler, codecVars, headerVars, extraVars>>

\* state.Caches.Init(); state.Caches.Start(); defer state.Caches.Stop()
CachesStart(i) ==
    /\ pc[i] = "caches"
    /\ state' = [state EXCEPT ![i].Caches = "started"]
    /\ defers' = [defers EXCEPT ![i] = Append(@, "Caches.Stop")]
    /\ trace' = [trace EXCEPT ![i] = Append(@, Ev("Caches.Start", TRUE))]
    /\ pc' = [pc EXCEPT ![i] = "db"]
    /\ UNCHANGED <<call, ret>>
    /\ UNCHANGED <<requestHandler, codecVars, headerVars, extraVars>>

\* a call that is given ctx returns an error once ctx is cancelled or timed out
CtxLive(c) == c.ctx = "live"

\* the caller's context is cancelled or its deadline passes
Cancel(i) ==
    /\ pc[i] \notin {"idle", "post", "panicked", "returned"}
    /\ call[i].ctx = "live"
    /\ call' = [call EXCEPT ![i].ctx = "done"]
    /\ UNCHANGED <<pc, state, defers, trace, ret>>
    /\ UNCHANGED <<requestHandler, codecVars, headerVars, extraVars>>

\* dbService, err := bundb.NewBunDBService(ctx, &state); state.DB = dbService
NewBunDBService(i) ==
    /\ pc[i] = "db"
    /\ \E ok \in BOOLEAN :
         /\ ok => CtxLive(call[i])
         /\ trace' = [trace EXCEPT ![i] = Append(@, Ev("NewBunDBService", ok))]
         /\ IF ok
            THEN /\ state' = [state EXCEPT ![i].DB = "open"]
                 /\ pc' = [pc EXCEPT ![i] = "account"]
                 /\ UNCHANGED <<defers, ret>>
            ELSE /\ Return(i, "nil", "error creating dbservice")
                 /\ UNCHANGED state
    /\ UNCHANGED call
    /\ UNCHANGED <<requestHandler, codecVars, headerVars, extraVars>>

\* dbService.CreateInstanceAccount(ctx)
CreateInstanceAccount(i) ==
    /\ pc[i] = "account"
    /\ \E ok \in BOOLEAN :
         /\ ok => CtxLive(call[i])
         /\ trace' = [trace EXCEPT ![i] = Append(@, Ev("CreateInstanceAccount", ok))]
         /\ IF ok
            THEN /\ pc' = [pc EXCEPT ![i] = "instance"]
                 /\ UNCHANGED <<defers, ret>>
            ELSE Return(i, "nil", "error creating instance account")
    /\ UNCHANGED <<call, state>>
    /\ UNCHANGED <<requestHandler, codecVars, headerVars, extraVars>>

\* dbService.CreateInstanceInstance(ctx)
CreateInstanceInstance(i) ==
    /\ pc[i] = "instance"
    /\ \E ok \in BOOLEAN :
         /\ ok => CtxLive(call[i])
         /\ trace' = [trace EXCEPT ![i] = Append(@, Ev("CreateInstanceInstance", ok))]
         /\ IF ok
            THEN /\ pc' = [pc EXCEPT ![i] = "storage"]
                 /\ UNCHANGED <<defers, ret>>
            ELSE Return(i, "nil", "error creating instance instance")
    /\ UNCHANGED <<call, state>>
    /\ UNCHANGED <<requestHandler, codecVars, headerVars, extraVars>>

\* the argument of gtsstorage.AutoConfig: typeutils.RandStringRunes(5) + ".lock"
\* in the two DoOperation handlers, the literal "hello.lock" in Create
LockNames(k) ==
    IF k = "create" THEN {<<"hello", 0, ".lock">>}
    ELSE {<<"rand", t, ".lock">> : t \in Tokens}

\* the lock files held at the moment: a storage handle that was opened holds
\* its lock file, and no handler ever closes the storage handle
HeldLocks(self) == {state[j].lock : j \in {x \in Invocations : x # self /\ state[x].Storage = "open"}}

\* a lock file is exclusive: opening the storage backend succeeds only when
\* no other handle holds a lock file of that name
LockFree(self, name) == name \notin HeldLocks(self)

\* storage, err := gtsstorage.AutoConfig(<lock name>); state.Storage = storage
AutoConfig(i) ==
    /\ pc[i] = "storage"
    /\ \E name \in LockNames(call[i].kind), ok \in BOOLEAN :
         /\ ok => LockFree(i, name)
         /\ trace' = [trace EXCEPT ![i] = Append(@, Ev("AutoConfig", ok))]
         /\ IF ok
            THEN /\ state' = [state EXCEPT ![i].Storage = "open", ![i].lock = name]
                 /\ pc' = [pc EXCEPT ![i] = "workers"]
                 /\ UNCHANGED <<defers, ret>>
            ELSE /\ state' = [state EXCEPT ![i].lock = name]
                 /\ Return(i, "nil", "error creating storage backend")
    /\ UNCHANGED call
    /\ UNCHANGED <<requestHandler, codecVars, headerVars, extraVars>>

\* state.Workers.Start(); defer state.Workers.Stop()
\* (the status handler builds its HTTP client just before; that touches no state)
WorkersStart(i) ==
    /\ pc[i] = "workers"
    /\ state' = [state EXCEPT ![i].Workers = "started"]
    /\ defers' = [defers EXCEPT ![i] = Append(@, "Workers.Stop")]
    /\ trace' = [trace EXCEPT ![i] = Append(@, Ev("Workers.Start", TRUE))]
    /\ pc' = [pc EXCEPT ![i] = "sweep"]
    /\ UNCHANGED <<call, ret>>
    /\ UNCHANGED <<requestHandler, codecVars, headerVars, extraVars>>

\* what the handler does with the result of Scheduler.AddRecurring: `_ =`
\* discards it, so the handler goes on to build the processor either way
AfterAddRecurring(ok) == "build"

\* SweepTask with the threshold of the comment above the call ("Threshold =
\* 80% capacity") instead of the argument the callback passes
SweepTaskThreshold80(i) ==
    [id |-> "@cachesweep", start |-> 0, freq |-> 60,
     fn |-> [call |-> "Caches.Sweep", arg |-> 80, cache |-> i]]

\* the task of the AddRecurring call: id, start (0: time.Time{}, fire at once),
\* freq in seconds (time.Minute) and the callback, state.Caches.Sweep(60) on
\* the cache of the same invocation
SweepTask(i) ==
    [id |-> "@cachesweep", start |-> 0, freq |-> 60,
     fn |-> [call |-> "Caches.Sweep", arg |-> 60, cache |-> i]]

\* _ = state.Workers.Scheduler.AddRecurring("@cachesweep", time.Time{}, time.Minute, fn)
AddRecurring(i) ==
    /\ pc[i] = "sweep"
    /\ \E ok \in BOOLEAN :
         /\ trace' = [trace EXCEPT ![i] = Append(@, Ev("AddRecurring", ok))]
         /\ state' = [state EXCEPT ![i].Scheduler = IF ok THEN @ \cup {SweepTask(i)} ELSE @]
         /\ pc' = [pc EXCEPT ![i] = AfterAddRecurring(ok)]
    /\ UNCHANGED <<call, defers, ret>>
    /\ UNCHANGED <<requestHandler, codecVars, headerVars, extraVars>>

\* the handlers built after the scheduler task; only the status handler
\* stores the processor's enqueue / process functions on state.Workers
BuildProcessor(i) ==
    /\ pc[i] = "build"
    /\ state' = [state EXCEPT ![i].fns = (call[i].kind = "status")]
    /\ pc' = [pc EXCEPT ![i] = "business"]
    /\ UNCHANGED <<call, defers, trace, ret>>
    /\ UNCHANGED <<requestHandler, codecVars, headerVars, extraVars>>

\* BusinessCall with a switch whose last case takes every other op code
BusinessCallNoDefault(c) ==
    CASE c.kind = "status" -> "Status.Create"
      [] c.kind = "create" -> "Media.Create"
      [] c.kind = "media" /\ c.op = CREATE_MEDIA -> "Media.Create"
      [] c.kind = "media" /\ c.op = UPDATE_MEDIA -> "Media.Update"
      [] OTHER -> "Media.Get"

\* the processor method an invocation calls, "none" for an unknown op code
BusinessCall(c) ==
    CASE c.kind = "status" -> "Status.Create"
      [] c.kind = "create" -> "Media.Create"
      [] c.kind = "media" /\ c.op = CREATE_MEDIA -> "Media.Create"
      [] c.kind = "media" /\ c.op = UPDATE_MEDIA -> "Media.Update"
      [] c.kind = "media" /\ c.op = GET_MEDIA -> "Media.Get"
      [] OTHER -> "none"

\* the error the entry point returns after the business call returned:
\* `apiStatus, _ := ...; return apiStatus, nil` drops the processor's error
ErrAfterBusiness(ok) == "nil"

\* the business call and the return statement after it
Business(i) ==
    /\ pc[i] = "business"
    /\ LET b == BusinessCall(call[i]) IN
       IF b = "none"
       THEN /\ Return(i, "nil", "invalid media operation")
            /\ UNCHANGED trace
       ELSE \E ok \in BOOLEAN :
            /\ trace' = [trace EXCEPT ![i] = Append(@, Ev(b, ok))]
            /\ Return(i, IF ok THEN "value" ELSE "nil", ErrAfterBusiness(ok))
    /\ UNCHANGED <<call, state>>
    /\ UNCHANGED <<requestHandler, codecVars, headerVars, extraVars>>

\* a task a caller of the scheduler registers for itself while the business
\* call runs
OtherTask(i) ==
    [id |-> "@other", start |-> 0, freq |-> 60,
     fn |-> [call |-> "none", arg |-> 0, cache |-> i]]

AddOtherTask(i) ==
    /\ pc[i] = "business"
    /\ state[i].Workers = "started"
    /\ OtherTask(i) \notin state[i].Scheduler
    /\ state' = [state EXCEPT ![i].Scheduler = @ \cup {OtherTask(i)}]
    /\ UNCHANGED <<pc, call, defers, trace, ret>>
    /\ UNCHANGED <<requestHandler, codecVars, headerVars, extraVars>>

\* a scheduler whose Stop leaves the timers of its tasks armed
SchedulerNeverStopped(s) == s.Workers # "zero"

\* the scheduler runs from Workers.Start to Workers.Stop
SchedulerRunning(s) == s.Workers = "started"

\* a task whose callback is still in flight n times may fire at any n
CanFireOverlapping(n) == n < 2

\* a task fires only when no callback of it is in flight
CanFire(n) == n = 0

\* the timer of a registered task fires and its callback starts
Fire(i) ==
    /\ SchedulerRunning(state[i])
    /\ \E t \in state[i].Scheduler :
         /\ CanFire(state[i].running[t.id])
         /\ state' = [state EXCEPT ![i].running[t.id] = @ + 1,
                                   ![i].lateFire = @ \/ state[i].WorkersStops > 0]
    /\ UNCHANGED <<pc, call, defers, trace, ret>>
    /\ UNCHANGED <<requestHandler, codecVars, headerVars, extraVars>>

\* a callback in flight runs its body and ends: the @cachesweep callback
\* calls state.Caches.Sweep(60), whatever the handler has done meanwhile
Callback(i) ==
    /\ \E t \in state[i].Scheduler :
         /\ state[i].running[t.id] > 0
         /\ state' = [state EXCEPT
                ![i].running[t.id] = @ - 1,
                ![i].lateSweep = @ \/ (t.fn.call = "Caches.Sweep"
                                        /\ state[t.fn.cache].Caches = "stopped")]
    /\ UNCHANGED <<pc, call, defers, trace, ret>>
    /\ UNCHANGED <<requestHandler, codecVars, headerVars, extraVars>>

\* NextDeferred running the deferred calls in registration order
NextDeferredFIFO(ds) == 1

\* the deferred call that runs next: the one registered last
NextDeferred(ds) == Len(ds)

\* one deferred call runs
RunDeferred(i) ==
    /\ pc[i] = "deferred"
    /\ defers[i] # <<>>
    /\ LET k == NextDeferred(defers[i])
           d == defers[i][k]
       IN /\ defers' = [defers EXCEPT ![i] = SubSeq(@, 1, k - 1) \o SubSeq(@, k + 1, Len(@))]
          /\ trace' = [trace EXCEPT ![i] = Append(@, Ev(d, TRUE))]
          /\ state' = [state EXCEPT ![i] =
                IF d = "Caches.Stop"
                THEN [@ EXCEPT !.Caches = "stopped", !.CachesStops = @ + 1]
                ELSE [@ EXCEPT !.Workers = "stopped", !.WorkersStops = @ + 1]]
    /\ UNCHANGED <<pc, call, ret>>
    /\ UNCHANGED <<requestHandler, codecVars, headerVars, extraVars>>

\* the entry point returns to its caller once no deferred call is left
Returned(i) ==
    /\ pc[i] = "deferred"
    /\ defers[i] = <<>>
    /\ pc' = [pc EXCEPT ![i] = "returned"]
    /\ UNCHANGED <<call, state, defers, trace, ret>>
    /\ UNCHANGED <<requestHandler, codecVars, headerVars, extraVars>>

(***************************************************************************)
(* The binary codec of apimodel.AttachmentRequest.  A byte is a number in  *)
(* 0..255, a string or buffer a sequence of bytes.                         *)
(***************************************************************************)
\* longest description / focus string tried
MaxStrLen == 2

LF == 10
SP == 32
COLON == 58

Min(a, b) == IF a < b THEN a ELSE b
Zeros(n) == [k \in 1..n |-> 0]

RECURSIVE Strings(_, _)
\* the strings over alphabet A of length at most n
Strings(A, n) ==
    IF n = 0 THEN {<<>>}
    ELSE LET S == Strings(A, n - 1) IN S \cup {Append(s, c) : s \in S, c \in A}

\* a *multipart.FileHeader as far as the codec reads it; nil marks a nil pointer
NilFile == [nil |-> TRUE, Filename |-> <<>>, Header |-> <<>>]
FileHeader(name, hdr) == [nil |-> FALSE, Filename |-> name, Header |-> hdr]
ZeroRequest == [File |-> NilFile, Description |-> <<>>, Focus |-> <<>>]

\* textproto.MIMEHeader values: a map from key to the list of its values
EmptyHeader == <<>>
Headers ==
    { EmptyHeader,
      (<<65>> :> << <<98>> >>),
      (<<65>> :> << <<98>>, <<99>> >>),
      (<<65>> :> << <<98>> >>) @@ (<<66, 45, 67>> :> << <<99>> >>) }
Filenames == {<<>>, <<102>>}
Texts == Strings({97, 98}, MaxStrLen)
Requests ==
    [File : {NilFile} \cup {FileHeader(n, h) : n \in Filenames, h \in Headers},
     Description : Texts, Focus : Texts]

\* binary.Write(buf, binary.LittleEndian, int64(n)), for |n| < 2^24
LittleEndian(n) == <<n % 256, (n \div 256) % 256, (n \div 65536) % 256, 0, 0, 0, 0, 0>>
PutInt64(n) ==
    IF n >= 0 THEN LittleEndian(n)
    ELSE LET m == LittleEndian((0 - n) - 1) IN [k \in 1..8 |-> 255 - m[k]]

\* the int64 that eight little-endian bytes hold; lengths of 2^24 and more, and
\* lengths below -2^24, do not occur in the buffers built here and are clipped
TooBig == 256 * 65536
Int64(b) ==
    IF b[8] < 128
    THEN IF \A k \in 4..8 : b[k] = 0 THEN b[1] + 256 * b[2] + 65536 * b[3] ELSE TooBig
    ELSE IF \A k \in 4..8 : b[k] = 255
         THEN 0 - (1 + (255 - b[1]) + 256 * (255 - b[2]) + 65536 * (255 - b[3]))
         ELSE 0 - TooBig

\* writeString with a prefix that counts one byte more than it writes
writeStringLongPrefix(str) == PutInt64(Len(str) + 1) \o str

\* writeString: the length prefix, then the bytes
writeString(str) == PutInt64(Len(str)) \o str

RECURSIVE headerLines(_, _)
\* the "key: value\n" lines of one key
headerLines(key, values) ==
    IF values = <<>> THEN <<>>
    ELSE key \o <<COLON, SP>> \o Head(values) \o <<LF>> \o headerLines(key, Tail(values))

RECURSIVE headerToString(_, _)
\* headerToString; `order` is the order in which `range header` yields the keys
headerToString(header, order) ==
    IF order = <<>> THEN <<>>
    ELSE headerLines(Head(order), header[Head(order)]) \o headerToString(header, Tail(order))

\* the orders in which a map with key set K can be ranged over
RangeOrders(K) ==
    {o \in [1..Cardinality(K) -> K] : \A a, b \in DOMAIN o : a # b => o[a] # o[b]}

MarshalBinaryMultipart(fh, order) ==
    PutInt64(Len(fh.Filename)) \o fh.Filename
    \o LET headerStr == headerToString(fh.Header, order)
       IN PutInt64(Len(headerStr)) \o headerStr

MarshalBinary(ar, order) ==
    (IF ~ar.File.nil
     THEN LET fileData == MarshalBinaryMultipart(ar.File, order)
          IN PutInt64(Len(fileData)) \o fileData
     ELSE PutInt64(0 - 1))
    \o writeString(ar.Description)
    \o writeString(ar.Focus)

\* a bytes.Reader: the buffer s and the number i of bytes already read
NewReader(data) == [s |-> data, i |-> 0]
Remaining(r) == Len(r.s) - r.i

\* binary.Read(buf, binary.LittleEndian, &int64): io.ReadFull of eight bytes,
\* an error (io.EOF or io.ErrUnexpectedEOF) when fewer are left
ReadInt64(r) ==
    IF Remaining(r) < 8
    THEN [err |-> TRUE, v |-> 0, r |-> [r EXCEPT !.i = Len(r.s)]]
    ELSE [err |-> FALSE, v |-> Int64(SubSeq(r.s, r.i + 1, r.i + 8)), r |-> [r EXCEPT !.i = @ + 8]]

\* bytes.Reader.Read(b) with len(b) = n, b zeroed by make: io.EOF when nothing
\* is left to read (also for n = 0); otherwise it copies what is there, up to
\* n bytes, and returns no error
ReaderRead(r, n) ==
    IF r.i >= Len(r.s)
    THEN [err |-> TRUE, b |-> Zeros(n), r |-> r]
    ELSE LET k == Min(n, Remaining(r))
         IN [err |-> FALSE,
             b |-> SubSeq(r.s, r.i + 1, r.i + k) \o Zeros(n - k),
             r |-> [r EXCEPT !.i = @ + k]]

\* a length-prefixed read, as readString and UnmarshalBinaryMultipart do it:
\* binary.Read of the length, make([]byte, length), buf.Read into it.
\* make panics on a negative length.
readString(r) ==
    LET l == ReadInt64(r) IN
    IF l.err THEN [out |-> "err", str |-> <<>>, r |-> l.r]
    ELSE IF l.v < 0 THEN [out |-> "panic", str |-> <<>>, r |-> l.r]
    ELSE LET d == ReaderRead(l.r, l.v) IN
         IF d.err THEN [out |-> "err", str |-> <<>>, r |-> d.r]
         ELSE [out |-> "ok", str |-> d.b, r |-> d.r]

\* index of the first occurrence of the byte c in s, 0 when there is none
IndexByte(s, c) ==
    IF \E k \in DOMAIN s : s[k] = c
    THEN CHOOSE k \in DOMAIN s : s[k] = c /\ \A m \in 1..(k - 1) : s[m] # c
    ELSE 0

RECURSIVE Split(_, _)
\* strings.Split(s, sep) for a one-byte separator
Split(s, sep) ==
    LET k == IndexByte(s, sep) IN
    IF k = 0 THEN <<s>>
    ELSE <<SubSeq(s, 1, k - 1)>> \o Split(SubSeq(s, k + 1, Len(s)), sep)

\* index of the first ": " in line, 0 when there is none
IndexSeparator(line) ==
    LET I == {k \in 1..(Len(line) - 1) : line[k] = COLON /\ line[k + 1] = SP}
    IN IF I = {} THEN 0 ELSE CHOOSE k \in I : \A m \in I : k <= m

\* the bytes a header field name may hold (textproto's validHeaderFieldByte)
TokenBytes ==
    (48..57) \cup (65..90) \cup (97..122)
    \cup {33, 35, 36, 37, 38, 39, 42, 43, 45, 46, 94, 95, 96, 124, 126}

\* textproto.CanonicalMIMEHeaderKey: a key holding a byte that is no token byte
\* stays as it is; otherwise the first letter and every letter after '-' is
\* made upper case and the other letters lower case
CanonicalMIMEHeaderKey(key) ==
    IF \E k \in DOMAIN key : key[k] \notin TokenBytes THEN key
    ELSE [k \in DOMAIN key |->
            LET upper == (k = 1) \/ key[k - 1] = 45
                c == key[k]
            IN IF upper /\ c \in 97..122 THEN c - 32
               ELSE IF ~upper /\ c \in 65..90 THEN c + 32
               ELSE c]

\* textproto.MIMEHeader.Add
Add(header, key, value) ==
    LET ck == CanonicalMIMEHeaderKey(key) IN
    IF ck \in DOMAIN header THEN [header EXCEPT ![ck] = Append(@, value)]
    ELSE [x \in DOMAIN header \cup {ck} |-> IF x = ck THEN <<value>> ELSE header[x]]

RECURSIVE addLines(_, _)
\* the loop of stringToHeader over the lines
addLines(header, lines) ==
    IF lines = <<>> THEN header
    ELSE LET line == Head(lines)
             k == IndexSeparator(line)
         IN IF line = <<>> \/ k = 0
            THEN addLines(header, Tail(lines))
            ELSE addLines(Add(header, SubSeq(line, 1, k - 1), SubSeq(line, k + 2, Len(line))),
                          Tail(lines))

stringToHeader(headerStr) == addLines(EmptyHeader, Split(headerStr, LF))

\* UnmarshalBinaryMultipart: [out, fh]
UnmarshalBinaryMultipart(data) ==
    LET f == readString(NewReader(data)) IN
    IF f.out # "ok" THEN [out |-> f.out, fh |-> NilFile]
    ELSE LET h == readString(f.r) IN
         IF h.out # "ok" THEN [out |-> h.out, fh |-> NilFile]
         ELSE [out |-> "ok", fh |-> FileHeader(f.str, stringToHeader(h.str))]

\* the description and focus part of UnmarshalBinary, on the receiver ar
unmarshalStrings(ar, r) ==
    LET d == readString(r) IN
    IF d.out # "ok" THEN [out |-> d.out, ar |-> ar]
    ELSE LET ar1 == [ar EXCEPT !.Description = d.str]
             f == readString(d.r)
         IN IF f.out # "ok" THEN [out |-> f.out, ar |-> ar1]
            ELSE [out |-> "ok", ar |-> [ar1 EXCEPT !.Focus = f.str]]

\* UnmarshalBinary on the receiver ar: [out, ar]; the receiver keeps what was
\* assigned to it before an error
UnmarshalBinary(ar, data) ==
    LET l == ReadInt64(NewReader(data)) IN
    IF l.err THEN [out |-> "err", ar |-> ar]
    ELSE IF l.v # 0 - 1
    THEN IF l.v < 0 THEN [out |-> "panic", ar |-> ar]
         ELSE LET d == ReaderRead(l.r, l.v) IN
              IF d.err THEN [out |-> "err", ar |-> ar]
              ELSE LET m == UnmarshalBinaryMultipart(d.b) IN
                   IF m.out # "ok" THEN [out |-> m.out, ar |-> ar]
                   ELSE unmarshalStrings([ar EXCEPT !.File = m.fh], d.r)
    ELSE unmarshalStrings([ar EXCEPT !.File = NilFile], l.r)

\* the sender encodes the request
Marshal ==
    /\ cpc = "start"
    /\ \E order \in RangeOrders(DOMAIN req.File.Header) : wire' = MarshalBinary(req, order)
    /\ cpc' = "encoded"
    /\ UNCHANGED <<req, cut, recv, out>>
    /\ UNCHANGED <<handlerVars, headerVars, extraVars>>

\* the buffer reaches the receiver cut short by n bytes
Truncate ==
    /\ cpc = "encoded"
    /\ cut = 0
    /\ \E n \in 1..Len(wire) :
         /\ wire' = SubSeq(wire, 1, Len(wire) - n)
         /\ cut' = n
    /\ UNCHANGED <<req, recv, out, cpc>>
    /\ UNCHANGED <<handlerVars, headerVars, extraVars>>

\* negative values written over a length prefix
NegativeLengths == {0 - 1, 0 - 2}

\* the offsets of the length prefixes of buffer s, which encodes request r:
\* fileLen, filenameLen and headerLen (with a file), descriptionLen, focusLen
PrefixOffsets(s, r) ==
    LET d == IF r.File.nil THEN 8 ELSE 8 + Int64(SubSeq(s, 1, 8))
    IN {0, d, d + 8 + Len(r.Description)}
       \cup (IF r.File.nil THEN {} ELSE {8, 16 + Len(r.File.Filename)})

\* the buffer reaches the receiver with one length prefix overwritten by a
\* negative value other than the file sentinel
Forge ==
    /\ cpc = "encoded"
    /\ cut = 0
    /\ \E off \in PrefixOffsets(wire, req), n \in NegativeLengths :
         /\ ~(off = 0 /\ n = 0 - 1)
         /\ wire' = SubSeq(wire, 1, off) \o PutInt64(n) \o SubSeq(wire, off + 9, Len(wire))
    /\ cpc' = "forged"
    /\ UNCHANGED <<req, cut, recv, out>>
    /\ UNCHANGED <<handlerVars, headerVars, extraVars>>

\* the receiver decodes the buffer into a zero AttachmentRequest
Unmarshal ==
    /\ cpc \in {"encoded", "forged"}
    /\ LET u == UnmarshalBinary(recv, wire) IN
         /\ recv' = u.ar
         /\ out' = u.out
    /\ cpc' = IF cpc = "forged" THEN "forged-decoded" ELSE "decoded"
    /\ UNCHANGED <<req, wire, cut>>
    /\ UNCHANGED <<handlerVars, headerVars, extraVars>>

\* the codec at rest
InitCodecIdle ==
    /\ req = ZeroRequest
    /\ wire = <<>>
    /\ cut = 0
    /\ recv = ZeroRequest
    /\ out = "none"
    /\ cpc = "start"

\* the header parser at rest
InitHeaderIdle ==
    /\ dump = <<>>
    /\ parsed = EmptyHeader
    /\ hpc = "start"

InitCodec ==
    /\ InitHandlers
    /\ InitHeaderIdle
    /\ InitExtraIdle
    /\ req \in Requests
    /\ wire = <<>>
    /\ cut = 0
    /\ recv = ZeroRequest
    /\ out = "none"
    /\ cpc = "start"

NextCodec == Marshal \/ Truncate \/ Forge \/ Unmarshal

SpecCodec == InitCodec /\ [][NextCodec]_vars

\* longest header dump tried
MaxDumpLen == 5

\* header dumps over the bytes 'A', 'a', ':', ' ' and '\n'
Dumps == Strings({65, 97, COLON, SP, LF}, MaxDumpLen)

\* stringToHeader is applied to a header dump
ParseHeader ==
    /\ hpc = "start"
    /\ parsed' = stringToHeader(dump)
    /\ hpc' = "parsed"
    /\ UNCHANGED <<dump, handlerVars, codecVars, extraVars>>

InitHeader ==
    /\ InitHandlers
    /\ InitCodecIdle
    /\ InitExtraIdle
    /\ dump \in Dumps
    /\ parsed = EmptyHeader
    /\ hpc = "start"

NextHeader == ParseHeader

SpecHeader == InitHeader /\ [][NextHeader]_vars

\* language.Parse: the tag a string denotes, in canonical form ("iw", the
\* deprecated code of Hebrew, becomes "he"); any other string here is no
\* well-formed tag
CanonicalTag ==
    (<<117, 110, 100>> :> <<117, 110, 100>>)      \* und
    @@ (<<101, 110>> :> <<101, 110>>)              \* en
    @@ (<<104, 101>> :> <<104, 101>>)              \* he
    @@ (<<105, 119>> :> <<104, 101>>)              \* iw -> he
LanguageParse(s) ==
    IF s \in DOMAIN CanonicalTag
    THEN [err |-> FALSE, tag |-> CanonicalTag[s]]
    ELSE [err |-> TRUE, tag |-> ZeroLanguage.Tag]

\* the tags language.Parse returns
Tags == {CanonicalTag[s] : s \in DOMAIN CanonicalTag}

\* the Language values encoded
Languages == [Tag : Tags, TagStr : Texts, DisplayStr : Texts]

\* Language.MarshalBinary: l.Tag.String(), l.TagStr and l.DisplayStr, each
\* behind its length as a little-endian int64
LanguageMarshalBinary(l) ==
    PutInt64(Len(l.Tag)) \o l.Tag
    \o PutInt64(Len(l.TagStr)) \o l.TagStr
    \o PutInt64(Len(l.DisplayStr)) \o l.DisplayStr

\* Language.UnmarshalBinary on the receiver l: [out, l]; each field is read
\* as binary.Read of the length, make, buf.Read, and assigned as it decodes
LanguageUnmarshalBinary(l, data) ==
    LET t == readString(NewReader(data)) IN
    IF t.out # "ok" THEN [out |-> t.out, l |-> l]
    ELSE LET p == LanguageParse(t.str)
             l1 == [l EXCEPT !.Tag = p.tag]
         IN IF p.err THEN [out |-> "err", l |-> l1]
            ELSE LET s == readString(t.r) IN
                 IF s.out # "ok" THEN [out |-> s.out, l |-> l1]
                 ELSE LET l2 == [l1 EXCEPT !.TagStr = s.str]
                          d == readString(s.r)
                      IN IF d.out # "ok" THEN [out |-> d.out, l |-> l2]
                         ELSE [out |-> "ok", l |-> [l2 EXCEPT !.DisplayStr = d.str]]

\* a Language is encoded
LangMarshal ==
    /\ lpc = "start"
    /\ langWire' = LanguageMarshalBinary(lang)
    /\ lpc' = "encoded"
    /\ UNCHANGED <<lang, langRecv, langOut>>
    /\ UNCHANGED <<handlerVars, codecVars, headerVars, laneVars, cacheVars, formVars>>

\* the bytes are decoded into a zero Language
LangUnmarshal ==
    /\ lpc = "encoded"
    /\ LET u == LanguageUnmarshalBinary(langRecv, langWire) IN
         /\ langRecv' = u.l
         /\ langOut' = u.out
    /\ lpc' = "decoded"
    /\ UNCHANGED <<lang, langWire>>
    /\ UNCHANGED <<handlerVars, codecVars, headerVars, laneVars, cacheVars, formVars>>

InitLang ==
    /\ InitHandlers
    /\ InitCodecIdle
    /\ InitHeaderIdle
    /\ InitLanesIdle
    /\ InitCacheIdle
    /\ InitFormIdle
    /\ lang \in Languages
    /\ langWire = <<>>
    /\ langRecv = ZeroLanguage
    /\ langOut = "none"
    /\ lpc = "start"

NextLang == LangMarshal \/ LangUnmarshal

SpecLang == InitLang /\ [][NextLang]_vars

\* largest configured size limit and longest description tried
MaxSize == 2
MaxDescLen == 3

RECURSIVE RuneCount(_)
\* len([]rune(s)) for a string of bytes: a two-byte sequence led by 0xC3 is
\* one rune, every other byte (ASCII, or invalid on its own) is one rune
RuneCount(s) ==
    IF s = <<>> THEN 0
    ELSE IF s[1] = 195 /\ Len(s) >= 2 /\ s[2] \in 128..191
         THEN 1 + RuneCount(SubSeq(s, 3, Len(s)))
         ELSE 1 + RuneCount(Tail(s))

\* the forms given to validateCreateMedia: no file or a file of some size,
\* and a description over 'a' and the two bytes of U+00E9
Forms ==
    [File : {NoForm.File} \cup {[nil |-> FALSE, Size |-> n] : n \in 0..(MaxSize + 1)},
     Description : Strings({97, 195, 169}, MaxDescLen)]

\* the values the config getters return
Limits ==
    [maxVideoSize : 0..MaxSize, maxImageSize : 0..MaxSize,
     minDescriptionChars : 0..MaxDescLen, maxDescriptionChars : 0..MaxDescLen]

\* validateCreateMedia: "nil" or the error it returns
validateCreateMedia(f, lim) ==
    IF f.File.nil THEN "no attachment given"
    ELSE LET maxSize == IF lim.maxImageSize > lim.maxVideoSize
                        THEN lim.maxImageSize ELSE lim.maxVideoSize
         IN IF f.File.Size > maxSize THEN "file size limit exceeded"
            ELSE IF RuneCount(f.Description) > lim.maxDescriptionChars
                 THEN "image description length must be between min and max"
                 ELSE "nil"

\* the handler validates the bound form
Validate ==
    /\ verdict = "none"
    /\ verdict' = validateCreateMedia(form, limits)
    /\ UNCHANGED <<form, limits>>
    /\ UNCHANGED <<handlerVars, codecVars, headerVars, laneVars, cacheVars, langVars>>

InitForm ==
    /\ InitHandlers
    /\ InitCodecIdle
    /\ InitHeaderIdle
    /\ InitLanesIdle
    /\ InitCacheIdle
    /\ InitLangIdle
    /\ form \in Forms
    /\ limits \in Limits
    /\ verdict = "none"

NextForm == Validate

SpecForm == InitForm /\ [][NextForm]_vars

\* configured capacity of the cache, in entries
CacheCapacity == 20

\* the thresholds Sweep is called with: the one of the scheduled task, and
\* others around it
Thresholds == {0, 50, SweepTask(1).fn.arg, 95, 100}

\* occupancy n is at or below t percent of the capacity
AtOrBelow(n, t) == n * 100 <= t * CacheCapacity

\* a Sweep that evicts one entry per call, whatever the threshold
SweepOneEntry(n, t) == IF n > 0 THEN n - 1 ELSE 0

RECURSIVE Sweep(_, _)
\* Sweep(t) on a cache holding n entries: entries are evicted until the
\* occupancy is at or below t percent of the capacity
Sweep(n, t) == IF AtOrBelow(n, t) THEN n ELSE Sweep(n - 1, t)

\* an entry is stored in the cache
Put ==
    /\ occupancy < CacheCapacity
    /\ occupancy' = occupancy + 1
    /\ swept' = NoSweep
    /\ UNCHANGED <<handlerVars, codecVars, headerVars, laneVars, langVars, formVars>>

\* Caches.Sweep(t) is called
CacheSweep ==
    /\ \E t \in Thresholds :
         /\ occupancy' = Sweep(occupancy, t)
         /\ swept' = [done |-> TRUE, before |-> occupancy, threshold |-> t]
    /\ UNCHANGED <<handlerVars, codecVars, headerVars, laneVars, langVars, formVars>>

InitCache ==
    /\ InitHandlers
    /\ InitCodecIdle
    /\ InitHeaderIdle
    /\ InitLanesIdle
    /\ InitLangIdle
    /\ InitFormIdle
    /\ InitCacheIdle

NextCache == Put \/ CacheSweep

SpecCache == InitCache /\ [][NextCache]_vars

\* number of items enqueued on one lane
MaxItems == 3

\* the goroutines that enqueue
Producers == {"p", "q"}

\* the n-th item producer p hands to a lane
Item(p, n) == [producer |-> p, n |-> n]

\* how many items of producer p sequence q holds
CountOf(q, p) == Cardinality({k \in DOMAIN q : q[k].producer = p})

\* a worker that takes the item enqueued last
NextItemLIFO(q) == Len(q)

\* the position in the queue of the item a free worker takes: the oldest
NextItem(q) == 1

\* a lane in which a failed item takes the items queued behind it with it
AfterProcessPoisoned(q, k, ok) == IF ok THEN SubSeq(q, 1, k - 1) \o SubSeq(q, k + 1, Len(q)) ELSE <<>>

\* what stays queued once the item at position k was processed, whether the
\* processing succeeded or failed
AfterProcess(q, k, ok) == SubSeq(q, 1, k - 1) \o SubSeq(q, k + 1, Len(q))

\* EnqueueClientAPI / EnqueueFediAPI: a producer appends its next item
Enqueue(l) ==
    /\ Len(enqueued[l]) < MaxItems
    /\ \E p \in Producers :
         LET it == Item(p, CountOf(enqueued[l], p) + 1) IN
         /\ lanes' = [lanes EXCEPT ![l] = Append(@, it)]
         /\ enqueued' = [enqueued EXCEPT ![l] = Append(@, it)]
    /\ UNCHANGED processed
    /\ UNCHANGED <<handlerVars, codecVars, headerVars, cacheVars, langVars, formVars>>

\* ProcessFromClientAPI / ProcessFromFediAPI: a worker of the lane takes an
\* item and processes it, with success or with a failure of that item
Process(l) ==
    /\ lanes[l] # <<>>
    /\ \E ok \in BOOLEAN :
         LET k == NextItem(lanes[l]) IN
         /\ processed' = [processed EXCEPT ![l] = Append(@, [item |-> lanes[l][k], ok |-> ok])]
         /\ lanes' = [lanes EXCEPT ![l] = AfterProcess(@, k, ok)]
    /\ UNCHANGED enqueued
    /\ UNCHANGED <<handlerVars, codecVars, headerVars, cacheVars, langVars, formVars>>

InitLanes ==
    /\ InitHandlers
    /\ InitCodecIdle
    /\ InitHeaderIdle
    /\ InitCacheIdle
    /\ InitLangIdle
    /\ InitFormIdle
    /\ InitLanesIdle

NextLanes == \E l \in Lanes : Enqueue(l) \/ Process(l)

SpecLanes == InitLanes /\ [][NextLanes]_vars

\* each lane is drained by its own pool of workers: a lane with an item
\* queued is served
SpecLanesFair == SpecLanes /\ \A l \in Lanes : WF_vars(Process(l))

\* the steps of the handler body
HandlerStep(i) ==
    \/ Call(i)
    \/ CachesStart(i)
    \/ NewBunDBService(i)
    \/ CreateInstanceAccount(i)
    \/ CreateInstanceInstance(i)
    \/ AutoConfig(i)
    \/ WorkersStart(i)
    \/ AddRecurring(i)
    \/ BuildProcessor(i)
    \/ Business(i)
    \/ RunDeferred(i)
    \/ Returned(i)

\* a step of the request's own goroutine
Step(i) == MediaCreatePOSTHandler(i) \/ HandlerStep(i)

\* what happens beside the request's goroutine: the caller cancels the
\* context, the scheduler fires, callbacks run, a caller registers a task
Async(i) ==
    \/ Cancel(i)
    \/ AddOtherTask(i)
    \/ Fire(i)
    \/ Callback(i)

Init ==
    /\ InitHandlers
    /\ InitCodecIdle
    /\ InitHeaderIdle
    /\ InitExtraIdle

\* one invocation on its own: the handler's state is a local variable
Next == Step(1) \/ Async(1)

Spec == Init /\ [][Next]_vars

\* several invocations of the entry points running concurrently
NextConc == \E i \in Invocations : Step(i)

SpecConc == Init /\ [][NextConc]_vars

(***************************************************************************)
(* Helpers of the properties.                                              *)
(***************************************************************************)
Names(tr) == {tr[k].name : k \in DOMAIN tr}
Has(tr, n) == n \in Names(tr)
\* position of the first call of n in tr
Pos(tr, n) == CHOOSE k \in DOMAIN tr : tr[k].name = n /\ \A m \in 1..(k - 1) : tr[m].name # n
Before(tr, a, b) == Has(tr, a) /\ Has(tr, b) /\ Pos(tr, a) < Pos(tr, b)
BusinessNames == {"Status.Create", "Media.Create", "Media.Update", "Media.Get"}
StageNames == {"Caches.Start", "NewBunDBService", "CreateInstanceAccount",
               "CreateInstanceInstance", "AutoConfig", "Workers.Start", "AddRecurring"}
\* rank of a call in the bootstrap order; the business call comes last
Rank(n) ==
    CASE n = "Caches.Start" -> 1
      [] n \in {"NewBunDBService", "CreateInstanceAccount", "CreateInstanceInstance"} -> 2
      [] n = "AutoConfig" -> 3
      [] n = "Workers.Start" -> 4
      [] n = "AddRecurring" -> 5
      [] OTHER -> 6
Failed(tr, S) == \E k \in DOMAIN tr : tr[k].name \in S /\ ~tr[k].ok
\* a ResourceContext is live from the call of its entry point until it returns
Live(i) == pc[i] \notin {"idle", "post", "panicked", "returned"}

\* C3: whenever the business call of an entry point returns an error, the
\* entry point returns a non-nil error to its caller.
C3_BusinessErrorSurfaces ==
    \A i \in Invocations :
        (pc[i] = "returned" /\ Failed(trace[i], BusinessNames)) => ret[i].err # "nil"

\* C4: if opening the storage backend fails, then when the entry point returns
\* its error the database handle is closed and the cache is stopped.
C4_StorageFailureTearsDown ==
    \A i \in Invocations :
        (pc[i] = "returned" /\ Failed(trace[i], {"AutoConfig"}))
            => (state[i].DB # "open" /\ state[i].Caches = "stopped")

\* C5: teardown runs in reverse order of the completed stages: once the worker
\* pool was started, every exit stops the workers and then the cache; before
\* that, Workers.Stop is never called and only what was started is stopped.
C5_TeardownReverseOrder ==
    \A i \in Invocations :
        LET tr == trace[i] IN
        /\ Has(tr, "Workers.Stop") => Before(tr, "Workers.Start", "Workers.Stop")
        /\ Has(tr, "Caches.Stop") => Before(tr, "Caches.Start", "Caches.Stop")
        /\ (Has(tr, "Caches.Stop") /\ Has(tr, "Workers.Start"))
              => Before(tr, "Workers.Stop", "Caches.Stop")
        /\ (pc[i] = "returned" /\ Has(tr, "Workers.Start"))
              => Before(tr, "Workers.Stop", "Caches.Stop")
        /\ (pc[i] = "returned" /\ ~Has(tr, "Workers.Start")) => ~Has(tr, "Workers.Stop")

\* an invocation that started its worker pool has returned, workers stopped first
C5_Witness ==
    /\ pc[1] = "returned"
    /\ Has(trace[1], "Workers.Start")
    /\ Before(trace[1], "Workers.Stop", "Caches.Stop")

\* C6: on every way out of an entry point (failed stage, failed business call,
\* success) the stop routine of each started component has run exactly once
\* when the entry point returns, and it never runs twice.
C6_StopExactlyOnce ==
    \A i \in Invocations :
        /\ state[i].CachesStops <= 1
        /\ state[i].WorkersStops <= 1
        /\ pc[i] = "returned" =>
             /\ state[i].CachesStops = (IF Has(trace[i], "Caches.Start") THEN 1 ELSE 0)
             /\ state[i].WorkersStops = (IF Has(trace[i], "Workers.Start") THEN 1 ELSE 0)

\* an invocation whose business call failed has returned with the worker pool
\* and the cache each stopped once
C6_Witness ==
    /\ pc[1] = "returned"
    /\ Failed(trace[1], BusinessNames)
    /\ state[1].CachesStops = 1
    /\ state[1].WorkersStops = 1

\* C7: the stages start in the fixed order cache, database, storage, workers,
\* cache-sweep registration, and nothing (no stage, no business call) starts
\* after a stage that failed.
C7_StagesSequential ==
    \A i \in Invocations :
        \A k, m \in DOMAIN trace[i] :
            (k < m /\ trace[i][k].name \in StageNames
                   /\ trace[i][m].name \in StageNames \cup BusinessNames)
                => (trace[i][k].ok /\ Rank(trace[i][k].name) <= Rank(trace[i][m].name))

\* C8: a failure of any bootstrap stage, the registration of the cache-sweep
\* task included, is fatal: the entry point returns an error, the business call
\* is not made, and what was started is stopped.
C8_StageFailureFatal ==
    \A i \in Invocations :
        (pc[i] = "returned" /\ Failed(trace[i], StageNames))
            => /\ ret[i].err # "nil"
               /\ Names(trace[i]) \cap BusinessNames = {}
               /\ state[i].Caches = "stopped"
               /\ state[i].Workers # "started"

\* the request decoded from the buffer equals the request that was encoded
SameRequest(a, b) ==
    /\ a.File.nil = b.File.nil
    /\ a.File.Filename = b.File.Filename
    /\ a.File.Header = b.File.Header
    /\ a.Description = b.Description
    /\ a.Focus = b.Focus

\* C1: decoding the bytes MarshalBinary returned for a request gives no error
\* and a request with the same file presence, filename, header, description
\* and focus.
C1_RoundTrip ==
    (cpc = "decoded" /\ cut = 0) => (out = "ok" /\ SameRequest(recv, req))

\* a length prefix at offset off of buffer s (with end the end of the record
\* it lies in) declares more bytes than are left after it
Overrun(s, off, end) == off + 8 <= end /\ Int64(SubSeq(s, off + 1, off + 8)) > end - (off + 8)
\* offset after the length-prefixed field at off, when it is whole
After(s, off) == off + 8 + Int64(SubSeq(s, off + 1, off + 8))
Whole(s, off, end) == off + 8 <= end /\ ~Overrun(s, off, end) /\ Int64(SubSeq(s, off + 1, off + 8)) >= 0
\* some length prefix of the buffer, found by following the layout, declares
\* more bytes than remain after it
SomeOverrun(s) ==
    LET n == Len(s)
        strings(off) ==
            \/ Overrun(s, off, n)
            \/ Whole(s, off, n) /\ Overrun(s, After(s, off), n)
    IN IF n < 8 THEN FALSE
       ELSE IF Int64(SubSeq(s, 1, 8)) = 0 - 1 THEN strings(8)
       ELSE \/ Overrun(s, 0, n)
            \/ /\ Whole(s, 0, n)
               /\ LET e == After(s, 0) IN
                    \/ Overrun(s, 8, e)
                    \/ Whole(s, 8, e) /\ Overrun(s, After(s, 8), e)
                    \/ strings(e)

\* C2: decoding a buffer in which some length prefix exceeds the bytes that
\* remain after it returns an error (no panic, no success).
C2_TruncationRejected ==
    (cpc = "decoded" /\ SomeOverrun(wire)) => out = "err"

\* C9: a live invocation never asks for the lock file that another live
\* invocation holds, so it never fails on that invocation's lock.
C9_LockNamesDistinct ==
    \A i, j \in Invocations :
        (i # j /\ Live(i) /\ Live(j) /\ state[i].Storage = "open" /\ state[j].lock # <<>>)
            => state[j].lock # state[i].lock

\* C10: at most one live invocation has the storage root open.
C10_SingleStorageOwner ==
    \A i, j \in Invocations :
        (i # j /\ Live(i) /\ Live(j)) => ~(state[i].Storage = "open" /\ state[j].Storage = "open")

\* C11: in every entry point the four dispatcher functions (EnqueueClientAPI,
\* EnqueueFediAPI, ProcessFromClientAPI, ProcessFromFediAPI) are set on the
\* invocation's state before the business call starts.
C11_DispatcherSetBeforeBusiness ==
    \A i \in Invocations :
        ((pc[i] = "business" /\ BusinessCall(call[i]) # "none")
            \/ Names(trace[i]) \cap BusinessNames # {})
          => state[i].fns

\* C12: within one invocation no component is used before it was started or
\* after its stop routine was called: no task fires and no callback runs
\* before Workers.Start or fires after Workers.Stop, the @cachesweep callback
\* never calls Caches.Sweep after Caches.Stop, and the business call is made
\* between the starts and the stops.
C12_NoUseOutsideLifetime ==
    \A i \in Invocations :
        /\ ~state[i].lateSweep
        /\ ~state[i].lateFire
        /\ (\E id \in TaskIds : state[i].running[id] > 0) => state[i].Workers # "zero"
        /\ \A k \in DOMAIN trace[i] :
              trace[i][k].name \in BusinessNames =>
                  /\ \E m \in 1..(k - 1) : trace[i][m].name = "Caches.Start"
                  /\ \E m \in 1..(k - 1) : trace[i][m].name = "Workers.Start"
                  /\ \A m \in 1..(k - 1) : trace[i][m].name \notin {"Caches.Stop", "Workers.Stop"}

\* C13: concurrent invocations share no mutable state: the component an
\* invocation of the media-create endpoint calls Create on is the one that
\* invocation itself stored, never one written by another invocation.
C13_NoSharedState ==
    \A i \in Invocations :
        (call[i].kind = "create" /\ pc[i] \notin {"idle", "post"}) => call[i].handler = i

\* C14: when the caller's context is cancelled while a blocking bootstrap
\* stage (database open, storage open) is in progress, the stage aborts: the
\* next step of the invocation is an error return, after which the deferred
\* teardown runs.
C14_CancelAbortsBootstrap ==
    [][\A i \in Invocations :
          (/\ call[i].ctx = "done"
           /\ pc[i] \in {"db", "account", "instance", "storage"}
           /\ pc'[i] # pc[i])
          => (pc'[i] = "deferred" /\ ret'[i].err \notin {"nil", "none"})]_vars

\* the AddRecurring call of the handler was made and succeeded
Registered(tr) == \E k \in DOMAIN tr : tr[k].name = "AddRecurring" /\ tr[k].ok

RECURSIVE SumOver(_, _)
\* the sum of f over the set S
SumOver(f, S) ==
    IF S = {} THEN 0
    ELSE LET x == CHOOSE x \in S : TRUE IN f[x] + SumOver(f, S \ {x})

\* number of values of a header, and the bytes its "key: value\n" lines take
ValueCount(h) == SumOver([k \in DOMAIN h |-> Len(h[k])], DOMAIN h)
LineBytes(h) ==
    SumOver([k \in DOMAIN h |->
                SumOver([j \in DOMAIN h[k] |-> Len(k) + 2 + Len(h[k][j]) + 1], DOMAIN h[k])],
            DOMAIN h)

\* the int64 prefix at offset off of s, and the n bytes after it
PrefixAt(s, off) == Int64(SubSeq(s, off + 1, off + 8))
PayloadAt(s, off, n) == SubSeq(s, off + 9, off + 8 + n)

\* d is a header dump of h: one "key: value\n" line per value, nothing else
IsDumpOf(d, h) ==
    /\ Len(d) = LineBytes(h)
    /\ Cardinality({p \in DOMAIN d : d[p] = LF}) = ValueCount(h)
    /\ \A k \in DOMAIN h : \A j \in DOMAIN h[k] :
          LET line == k \o <<COLON, SP>> \o h[k][j] \o <<LF>> IN
          \E p \in 0..(Len(d) - Len(line)) :
              /\ p = 0 \/ d[p] = LF
              /\ SubSeq(d, p + 1, p + Len(line)) = line

\* s is the file sub-record of fh: filenameLen, filename, headerLen, dump
IsFileRecordOf(s, fh) ==
    /\ Len(s) >= 8
    /\ PrefixAt(s, 0) = Len(fh.Filename)
    /\ PayloadAt(s, 0, Len(fh.Filename)) = fh.Filename
    /\ LET off == 8 + Len(fh.Filename) IN
          /\ Len(s) >= off + 8
          /\ PrefixAt(s, off) = Len(s) - (off + 8)
          /\ IsDumpOf(PayloadAt(s, off, Len(s) - (off + 8)), fh.Header)

\* s is the encoding of request r
IsEncodingOf(s, r) ==
    /\ Len(s) >= 8
    /\ (PrefixAt(s, 0) = 0 - 1) <=> r.File.nil
    /\ ~r.File.nil => /\ PrefixAt(s, 0) >= 0
                      /\ Len(s) >= 8 + PrefixAt(s, 0)
                      /\ IsFileRecordOf(PayloadAt(s, 0, PrefixAt(s, 0)), r.File)
    /\ LET d == IF r.File.nil THEN 8 ELSE 8 + PrefixAt(s, 0)
           f == d + 8 + Len(r.Description)
       IN /\ Len(s) = f + 8 + Len(r.Focus)
          /\ PrefixAt(s, d) = Len(r.Description)
          /\ PayloadAt(s, d, Len(r.Description)) = r.Description
          /\ PrefixAt(s, f) = Len(r.Focus)
          /\ PayloadAt(s, f, Len(r.Focus)) = r.Focus

\* C16: the output of MarshalBinary is the int64 fileLen (-1 exactly when File
\* is nil, else the length of the file sub-record), the file sub-record when
\* present (filenameLen, filename, headerLen, one "key: value" line per
\* header value), descriptionLen and description, focusLen and focus; every
\* length prefix is the byte count of the payload that follows it.
C16_MarshalLayout ==
    (cpc = "encoded" /\ cut = 0) => IsEncodingOf(wire, req)

\* C16 witness: a request with a file whose header has a key with two values,
\* and a non-empty description and focus, has been encoded
C16_Witness ==
    /\ cpc = "encoded"
    /\ cut = 0
    /\ ~req.File.nil
    /\ \E k \in DOMAIN req.File.Header : Len(req.File.Header[k]) = 2
    /\ req.File.Filename # <<>>
    /\ req.Description # <<>>
    /\ req.Focus # <<>>

\* C17: when UnmarshalBinary returns an error the receiver is left as it was
\* before the call: none of File, Description, Focus holds data decoded
\* before the failure.
C17_NoPartialDecode ==
    (cpc = "decoded" /\ out # "ok") => recv = ZeroRequest

\* the lines of dump d that contain ": ", in order
EntryLines(d) == SelectSeq(Split(d, LF), LAMBDA l : IndexSeparator(l) # 0)
\* a line split at its first ": "
KeyOf(l) == SubSeq(l, 1, IndexSeparator(l) - 1)
ValueOf(l) == SubSeq(l, IndexSeparator(l) + 2, Len(l))
\* the header the entry lines of d describe: per key, its values in line order
EntriesOf(d) ==
    LET ls == EntryLines(d) IN
    [k \in {KeyOf(ls[j]) : j \in DOMAIN ls} |->
        LET mine == SelectSeq(ls, LAMBDA l : KeyOf(l) = k)
        IN [j \in DOMAIN mine |-> ValueOf(mine[j])]]

\* C18: decoding a header dump yields exactly the entries of the lines that
\* contain ": ", each split at its first ": " into key and value, the values
\* of one key in line order; other lines contribute nothing.
C18_HeaderEntries ==
    hpc = "parsed" => parsed = EntriesOf(dump)

\* C19: after Workers.Stop (which stops the scheduler) no firing of any
\* recurring task starts; a callback in flight when Stop is called can still
\* run to completion.
C19_NoFiringAfterStop ==
    \A i \in Invocations :
        /\ ~state[i].lateFire
        /\ (state[i].WorkersStops > 0 /\ \E t \in state[i].Scheduler : state[i].running[t.id] > 0)
              => ENABLED Callback(i)

\* C19 witness: Workers.Stop has been called while the @cachesweep callback
\* is in flight
C19_Witness ==
    /\ state[1].WorkersStops > 0
    /\ state[1].running["@cachesweep"] = 1

\* C20: for each task id at most one callback is in flight; a callback in
\* flight holds back only the next firing of its own id: a task with another
\* id can still be registered and can still fire.
C20_NoOverlapPerId ==
    \A i \in Invocations :
        /\ \A id \in TaskIds : state[i].running[id] <= 1
        /\ (/\ pc[i] = "business"
            /\ state[i].Workers = "started"
            /\ OtherTask(i) \notin state[i].Scheduler) => ENABLED AddOtherTask(i)
        /\ (/\ state[i].Workers = "started"
            /\ state[i].WorkersStops = 0
            /\ \E t \in state[i].Scheduler : state[i].running[t.id] = 0) => ENABLED Fire(i)

\* C20 witness: the callbacks of two task ids are in flight at once, the
\* second task registered and fired while the first callback ran
C20_Witness ==
    /\ state[1].running["@cachesweep"] = 1
    /\ state[1].running["@other"] = 1

\* the calls of processor methods in a trace, in order
BusinessCalls(tr) == SelectSeq(tr, LAMBDA e : e.name \in BusinessNames)
\* the bootstrap of the invocation went through and its return statement ran
AfterSwitch(i) == Has(trace[i], "AddRecurring")

\* C24: for an op code outside CREATE_MEDIA, UPDATE_MEDIA, GET_MEDIA the
\* media DoOperation returns a nil attachment and the error "invalid media
\* operation", calls no processor method, and still stops the worker pool
\* and then the cache; for a valid code it calls exactly the matching method.
C24_InvalidOpRejected ==
    \A i \in Invocations :
        (call[i].kind = "media" /\ AfterSwitch(i) /\ pc[i] \in {"deferred", "returned"}) =>
            /\ call[i].op \notin {CREATE_MEDIA, UPDATE_MEDIA, GET_MEDIA} =>
                  /\ ret[i] = [val |-> "nil", err |-> "invalid media operation"]
                  /\ BusinessCalls(trace[i]) = <<>>
                  /\ pc[i] = "returned" =>
                        /\ state[i].Workers = "stopped"
                        /\ state[i].Caches = "stopped"
                        /\ Before(trace[i], "Workers.Stop", "Caches.Stop")
            /\ call[i].op = CREATE_MEDIA =>
                  (Len(BusinessCalls(trace[i])) = 1 /\ BusinessCalls(trace[i])[1].name = "Media.Create")
            /\ call[i].op = UPDATE_MEDIA =>
                  (Len(BusinessCalls(trace[i])) = 1 /\ BusinessCalls(trace[i])[1].name = "Media.Update")
            /\ call[i].op = GET_MEDIA =>
                  (Len(BusinessCalls(trace[i])) = 1 /\ BusinessCalls(trace[i])[1].name = "Media.Get")

\* C24 witness: a media DoOperation with an unknown op code has returned
\* after a bootstrap that went through
C24_Witness ==
    /\ call[1].kind = "media"
    /\ call[1].op \notin {CREATE_MEDIA, UPDATE_MEDIA, GET_MEDIA}
    /\ AfterSwitch(1)
    /\ pc[1] = "returned"

\* C26: an entry point never returns a nil result together with a nil error.
C26_NeverNilNil ==
    \A i \in Invocations :
        pc[i] \in {"deferred", "returned"} => ~(ret[i].val = "nil" /\ ret[i].err = "nil")

\* C25: encoding is deterministic: every call of MarshalBinary on the same
\* request value returns the bytes the first call returned.
C25_MarshalDeterministic ==
    (cpc = "encoded" /\ cut = 0) =>
        \A order \in RangeOrders(DOMAIN req.File.Header) : MarshalBinary(req, order) = wire

\* C27: UnmarshalBinary on a buffer that holds a negative length prefix other
\* than the file sentinel -1 returns an error; it does not panic.
C27_NegativeLengthRejected ==
    cpc = "forged-decoded" => out = "err"

\* C28: for every Language with a valid tag, decoding the bytes
\* Language.MarshalBinary returned gives no error and the same Tag, TagStr
\* and DisplayStr.
C28_LanguageRoundTrip ==
    lpc = "decoded" => (langOut = "ok" /\ langRecv = lang)

\* C29: validateCreateMedia accepts a form exactly when its File is non-nil,
\* the file size is at most the larger of the video and image size limits,
\* and the description's length in runes lies between the configured minimum
\* and maximum, both inclusive.
C29_ValidateIff ==
    verdict # "none" =>
        (verdict = "nil" <=>
            /\ ~form.File.nil
            /\ form.File.Size <= limits.maxVideoSize \/ form.File.Size <= limits.maxImageSize
            /\ limits.minDescriptionChars <= RuneCount(form.Description)
            /\ RuneCount(form.Description) <= limits.maxDescriptionChars)

ItemsOf(log) == [k \in DOMAIN log |-> log[k].item]
\* the items of producer p in a sequence of items, in order
Of(q, p) == SelectSeq(q, LAMBDA it : it.producer = p)
\* a is a prefix of b
IsPrefix(a, b) == Len(a) <= Len(b) /\ SubSeq(b, 1, Len(a)) = a

\* C21: within one lane the items of one producer are processed in the order
\* in which it enqueued them (its n-th item is the n-th of its items to be
\* processed); the other lane puts no order on them: whenever both lanes hold
\* an item, either lane can process next.
C21_LaneFIFO ==
    /\ \A l \in Lanes : \A p \in Producers :
          /\ IsPrefix(Of(ItemsOf(processed[l]), p), Of(enqueued[l], p))
          /\ \A k \in DOMAIN Of(ItemsOf(processed[l]), p) : Of(ItemsOf(processed[l]), p)[k].n = k
    /\ (\A l \in Lanes : lanes[l] # <<>>) => \A l \in Lanes : ENABLED Process(l)

\* C21 witness: one producer enqueued three items on the client lane and all
\* three were processed while an item enqueued on the federation lane before
\* the last of them still waits
C21_Witness ==
    /\ \E p \in Producers : Len(Of(ItemsOf(processed["client"]), p)) = 3
    /\ lanes["fedi"] # <<>>
    /\ processed["fedi"] = <<>>

\* C22: when the processing of an item fails, every item enqueued in the
\* same lane behind it is still processed in the end: whatever has failed,
\* each lane again and again reaches the point where all items enqueued on
\* it so far have been processed, none dropped.
C22_FailureIsolated ==
    \A l \in Lanes : []<>(ItemsOf(processed[l]) = enqueued[l])

\* C22 witness: an item failed and an item enqueued behind it in the same
\* lane has been processed
C22_Witness ==
    \E l \in Lanes :
        /\ Len(processed[l]) >= 2
        /\ ~processed[l][1].ok

====
